---- MODULE Spec2Model ----
(***************************************************************************)
(* Energino measurement/control core (sketches/libraries/Energino/         *)
(* energino.h): the settings record, its EEPROM image, the serial command  *)
(* parser serParseCommand, the relay pin, the unit conversions and the     *)
(* telemetry line of dumpToSerial.                                         *)
(*                                                                         *)
(* Characters are one-character strings and NUL is the empty string.  C    *)
(* arrays are functions over 0..N-1.  The serial receive buffer is a       *)
(* sequence of characters, oldest first.  Doubles are IEEE values of the   *)
(* width of the build, every operation rounded as the hardware rounds it.  *)
(***************************************************************************)
EXTENDS Integers, Sequences, FiniteSets, TLC

VARIABLES
    settings,   \* the in-memory settings_t record
    eeprom,     \* the settings_t image held in EEPROM at address 0
    serial,     \* bytes pending in the serial receive buffer
    relay,      \* level last driven on the relay output pin
    status,     \* "running", or "crashed" once a smashed stack frame is unwound
    call,       \* what the last serParseCommand call did (history)
    batch,      \* the last batch the transport delivered (history)
    intBits,    \* the width of int in this build
    arrivals,   \* number of input batches delivered so far
    VFinal,     \* last computed voltage reading, in ADC steps
    IFinal,     \* last computed current reading, in ADC steps
    lastSamples, \* number of samples behind the last readings
    castMode,   \* what this build makes of an int conversion that is undefined
    dblBits,    \* the width of double in this build
    longBits,   \* the width of long in this build
    report      \* what the last dumpToSerial calls printed (history)

\* the latest readings
readings == <<VFinal, IFinal, lastSamples>>

\* the state the telemetry adds to that of the parser
telemetry == <<VFinal, IFinal, lastSamples, report>>

\* the build: the widths of int, long and double, the outcome of an undefined
\* cast
build == <<intBits, longBits, dblBits, castMode>>

vars == <<settings, eeprom, serial, relay, status, call, batch, intBits, arrivals,
          VFinal, IFinal, lastSamples, castMode, dblBits, longBits, report>>

---------------------------------------------------------------------------
(* Bounds of the model *)

\* longest content of the serial receive buffer
MaxAvail == 72

\* number of input batches delivered in one behaviour
MaxArrivals == 2

\* number of input batches delivered in one behaviour of SpecOverrun
MaxOverruns == 1

\* number of dumpToSerial calls followed while the state stays as it is
MaxReports == 2

---------------------------------------------------------------------------
(* Program constants *)

NUL == ""

\* char inputBytes[60]
InputLen == 60

\* char apikey[49]
ApikeyLen == 49

\* char feedsurl[60]
FeedsurlLen == 60

\* int DEFAULT_AREF = 5000
DEFAULT_AREF == 5000

\* for(long i = 0; i < 1000; i++)
CalReads == 1000

\* aref / 1024.0
AdcSteps == 1024

\* the last index strncpy may reach in apikey, and the index terminated
ApikeyLast == 48

\* the index of feedsurl that is terminated
FeedsurlLast == 59

\* largest value of a signed 32-bit integer: the long of the boards, the int
\* of a 64-bit host
LongMax == 2147483647

LOW == 0

HIGH == 1

---------------------------------------------------------------------------
(* Text helpers *)

Digits == {"0", "1", "2", "3", "4", "5", "6", "7", "8", "9"}

DigitVal ==
    "0" :> 0 @@ "1" :> 1 @@ "2" :> 2 @@ "3" :> 3 @@ "4" :> 4 @@
    "5" :> 5 @@ "6" :> 6 @@ "7" :> 7 @@ "8" :> 8 @@ "9" :> 9

\* isspace(): blank, \t, \n, \v, \f, \r; atoi and atol skip them all
Spaces == {" ", "\t", "\n", "", "\f", "\r"}

Letters == <<"a", "b", "c", "d", "e", "f", "g">>

\* a payload of n letters whose k-th character depends on k
Fill(n) == [k \in 1..n |-> Letters[((k - 1) % Len(Letters)) + 1]]

\* the char[n] array holding the C string s, padded with NUL (@@ <<>> leaves
\* the function as it is and has TLC hold it as an explicit table)
CStr(s, n) == [k \in 0..(n - 1) |-> IF k < Len(s) THEN s[k + 1] ELSE NUL] @@ <<>>

\* strlen within the array: the index of the first NUL, or the array size
StrLen(a) ==
    LET n == Cardinality(DOMAIN a)
    IN  CHOOSE k \in 0..n :
            /\ (k = n \/ a[k] = NUL)
            /\ \A j \in 0..(k - 1) : a[j] # NUL

\* the characters of the C string held in array a
Chars(a) == [k \in 1..StrLen(a) |-> a[k - 1]]

\* strncpy without the padding: the characters of src and one NUL, as strlcpy
\* writes them
strncpyUnpadded(dst, src, n) ==
    LET len == StrLen(src)
    IN  [k \in DOMAIN dst |->
            IF k < n /\ k <= len
            THEN (IF k < len THEN src[k] ELSE NUL)
            ELSE dst[k]]

\* strncpy(dst, src, n): copies src up to its NUL, pads with NUL up to n bytes
strncpy(dst, src, n) ==
    LET len == StrLen(src)
    IN  [k \in DOMAIN dst |->
            IF k < n
            THEN (IF k < len THEN src[k] ELSE NUL)
            ELSE dst[k]]

---------------------------------------------------------------------------
(* Naturals of any size *)

\* A natural number is the sequence of its base-2^15 limbs, least significant
\* first, the last limb nonzero; zero is the empty sequence.  The numerals
\* of a payload, a 64-bit long, the mantissa of a double and the products and
\* quotients formed from it need more bits than an integer of the model has.
Radix == 32768

RadixBits == 15

RECURSIVE Pow2(_)
Pow2(n) == IF n = 0 THEN 1 ELSE 2 * Pow2(n - 1)

RECURSIVE NTrim(_)
NTrim(a) ==
    IF a # <<>> /\ a[Len(a)] = 0 THEN NTrim(SubSeq(a, 1, Len(a) - 1)) ELSE a

RECURSIVE NFromInt(_)
NFromInt(n) == IF n = 0 THEN <<>> ELSE <<n % Radix>> \o NFromInt(n \div Radix)

\* the value of a natural below 2^31
RECURSIVE NToInt(_)
NToInt(a) == IF a = <<>> THEN 0 ELSE a[1] + Radix * NToInt(Tail(a))

\* a times Radix^n
RECURSIVE NShiftLimbs(_, _)
NShiftLimbs(a, n) == IF a = <<>> \/ n = 0 THEN a ELSE NShiftLimbs(<<0>> \o a, n - 1)

RECURSIVE NCmpAt(_, _, _)
NCmpAt(a, b, k) ==
    IF k = 0 THEN 0
    ELSE IF a[k] # b[k] THEN (IF a[k] < b[k] THEN -1 ELSE 1)
    ELSE NCmpAt(a, b, k - 1)

\* -1, 0, 1 as a < b, a = b, a > b
NCmp(a, b) ==
    IF Len(a) # Len(b) THEN (IF Len(a) < Len(b) THEN -1 ELSE 1)
    ELSE NCmpAt(a, b, Len(a))

RECURSIVE NAddCarry(_, _, _)
NAddCarry(a, b, carry) ==
    IF a = <<>> /\ b = <<>>
    THEN (IF carry = 0 THEN <<>> ELSE <<carry>>)
    ELSE LET x == (IF a = <<>> THEN 0 ELSE a[1]) + (IF b = <<>> THEN 0 ELSE b[1]) + carry
         IN  <<x % Radix>> \o NAddCarry(IF a = <<>> THEN a ELSE Tail(a),
                                         IF b = <<>> THEN b ELSE Tail(b),
                                         x \div Radix)

NAdd(a, b) == NAddCarry(a, b, 0)

RECURSIVE NSubBorrow(_, _, _)
NSubBorrow(a, b, borrow) ==
    IF a = <<>>
    THEN <<>>
    ELSE LET x == a[1] - (IF b = <<>> THEN 0 ELSE b[1]) - borrow
         IN  <<x % Radix>> \o NSubBorrow(Tail(a), IF b = <<>> THEN b ELSE Tail(b),
                                          IF x < 0 THEN 1 ELSE 0)

\* a - b for a >= b
NSub(a, b) == NTrim(NSubBorrow(a, b, 0))

\* a * c + carry for a limb-sized c
RECURSIVE NMulLimb(_, _, _)
NMulLimb(a, c, carry) ==
    IF a = <<>>
    THEN (IF carry = 0 THEN <<>> ELSE <<carry>>)
    ELSE LET x == a[1] * c + carry
         IN  <<x % Radix>> \o NMulLimb(Tail(a), c, x \div Radix)

RECURSIVE NMul(_, _)
NMul(a, b) ==
    IF a = <<>> \/ b = <<>>
    THEN <<>>
    ELSE NAdd(NTrim(NMulLimb(a, b[1], 0)), NShiftLimbs(NMul(a, Tail(b)), 1))

\* quotient and remainder of a by a limb-sized c > 0, from limb k downwards
RECURSIVE NDivLimbAt(_, _, _, _, _)
NDivLimbAt(a, c, k, rem, acc) ==
    IF k = 0
    THEN [quot |-> NTrim(acc), rem |-> IF rem = 0 THEN <<>> ELSE <<rem>>]
    ELSE LET x == rem * Radix + a[k]
         IN  NDivLimbAt(a, c, k - 1, x % c, <<x \div c>> \o acc)

NDivLimb(a, c) == NDivLimbAt(a, c, Len(a), 0, <<>>)

\* the largest q in lo..hi with q * b <= a, by bisection
RECURSIVE NDigit(_, _, _, _)
NDigit(a, b, lo, hi) ==
    IF lo = hi
    THEN lo
    ELSE LET mid == (lo + hi + 1) \div 2
         IN  IF NCmp(NMulLimb(b, mid, 0), a) <= 0
             THEN NDigit(a, b, mid, hi)
             ELSE NDigit(a, b, lo, mid - 1)

\* long division of a by b > 0 from limb k downwards, a limb of the quotient
\* at a time
RECURSIVE NDivLongAt(_, _, _, _, _)
NDivLongAt(a, b, k, rem, acc) ==
    IF k = 0
    THEN [quot |-> NTrim(acc), rem |-> rem]
    ELSE LET cur == NTrim(<<a[k]>> \o rem)
             q == NDigit(cur, b, 0, Radix - 1)
             left == IF q = 0 THEN cur ELSE NSub(cur, NMulLimb(b, q, 0))
         IN  NDivLongAt(a, b, k - 1, left, <<q>> \o acc)

\* quotient and remainder of a by b > 0
NDivMod(a, b) ==
    IF Len(b) = 1 THEN NDivLimb(a, b[1]) ELSE NDivLongAt(a, b, Len(a), <<>>, <<>>)

\* a * 2^k
NShl(a, k) ==
    NShiftLimbs(NMulLimb(a, Pow2(k % RadixBits), 0), k \div RadixBits)

\* a \div 2^k
NShr(a, k) ==
    IF k \div RadixBits >= Len(a)
    THEN <<>>
    ELSE NDivLimb(SubSeq(a, (k \div RadixBits) + 1, Len(a)), Pow2(k % RadixBits)).quot

RECURSIVE BitLen(_)
BitLen(n) == IF n = 0 THEN 0 ELSE 1 + BitLen(n \div 2)

\* the number of bits of a
NBitLen(a) == IF a = <<>> THEN 0 ELSE RadixBits * (Len(a) - 1) + BitLen(a[Len(a)])

\* the number of zero bits at the low end of a > 0
RECURSIVE NLowZeros(_)
NLowZeros(a) ==
    IF a[1] = 0 THEN RadixBits + NLowZeros(Tail(a))
    ELSE IF a[1] % 2 = 0 THEN 1 + NLowZeros(NDivLimb(a, 2).quot)
    ELSE 0

---------------------------------------------------------------------------
(* Integer conversions *)

\* The widths an int has in a build of the library: 16 bits on the AVR
\* boards of <avr/eeprom.h>, 32 bits where the header is built with a 32-bit
\* int.
IntWidths == {16, 32}

\* The widths a long has: 32 bits on the boards, 64 bits on a host whose long
\* is as wide as its pointers.
LongWidths == {32, 64}

\* the narrowest long
LongBits == 32

\* one 16-bit limb
Limb == 65536

HalfLimb == 32768

\* largest value of a signed integer of the given width, 16 or 32
MaxOf(bits) == IF bits = 16 THEN HalfLimb - 1 ELSE LongMax

MinOf(bits) == (-MaxOf(bits)) - 1

\* the value of the 16-bit pattern lo read as a signed integer
Signed16(lo) == IF lo >= HalfLimb THEN lo - Limb ELSE lo

\* two's complement wrap of the in-range integer n to the given width
Wrap(n, bits) ==
    IF bits = 16 THEN Signed16(n % Limb) ELSE n

\* a + b in an int of the given width.  Past the range of int the addition is
\* undefined; the builds keep the low bits of the sum.
AddWrap(a, b, bits) ==
    IF bits = 16
    THEN Wrap(a + b, bits)
    ELSE IF a > 0 /\ b > 0 /\ a > LongMax - b
    THEN ((a - LongMax) - 1) + ((b - LongMax) - 1)
    ELSE IF a < 0 /\ b < 0 /\ a < MinOf(bits) - b
    THEN ((a + LongMax) + 1) + ((b + LongMax) + 1)
    ELSE a + b

\* An integer of any size: its sign and its magnitude, a natural.
Z(neg, mag) == [neg |-> neg /\ mag # <<>>, mag |-> mag]

\* 2^(bits - 1), the magnitude of the least integer of the width
ZHalf(bits) == NShl(<<1>>, bits - 1)

\* the integer fits a signed integer of the given width
ZFits(z, bits) ==
    IF z.neg
    THEN NCmp(z.mag, ZHalf(bits)) <= 0
    ELSE NCmp(z.mag, ZHalf(bits)) < 0

\* the integer, or the end of the range of the width it lies beyond
ZSaturate(z, bits) ==
    IF ZFits(z, bits) THEN z
    ELSE IF z.neg THEN Z(TRUE, ZHalf(bits))
    ELSE Z(FALSE, NSub(ZHalf(bits), <<1>>))

\* the low bits of the integer in two's complement, read as a signed integer
\* of the width
ZWrap(z, bits) ==
    LET low == NSub(z.mag, NShl(NShr(z.mag, bits), bits))
        pattern == IF z.neg /\ low # <<>> THEN NSub(NShl(<<1>>, bits), low) ELSE low
    IN  IF NCmp(pattern, ZHalf(bits)) < 0
        THEN Z(FALSE, pattern)
        ELSE Z(TRUE, NSub(NShl(<<1>>, bits), pattern))

\* the value of an integer that fits 32 bits
ZToInt(z) ==
    IF ~z.neg THEN NToInt(z.mag)
    ELSE IF z.mag = ZHalf(LongBits) THEN MinOf(LongBits)
    ELSE -NToInt(z.mag)

\* the index of the first character from buf[k] on that is not in `set`, or
\* the index after the last character
FirstOutside(buf, k, set) ==
    CHOOSE j \in k..(k + Cardinality(DOMAIN buf)) :
        /\ (j \notin DOMAIN buf \/ buf[j] \notin set)
        /\ \A i \in k..(j - 1) : i \in DOMAIN buf /\ buf[i] \in set

SkipSpaces(buf, k) == FirstOutside(buf, k, Spaces)

\* the index of the first character from buf[k] on that is not a digit
DigitsEnd(buf, k) == FirstOutside(buf, k, Digits)

\* the value of the digits buf[from] .. buf[to - 1] after those of value
\* acc: acc * 10 + digit for each in turn.  The range is split in halves and
\* the value of the first half is formed before the second is entered, so
\* that the evaluation stays shallow.
RECURSIVE ScanRange(_, _, _, _)
ScanRange(buf, from, to, acc) ==
    IF to <= from
    THEN acc
    ELSE IF to = from + 1
    THEN NAdd(NMulLimb(acc, 10, 0), NFromInt(DigitVal[buf[from]]))
    ELSE LET mid == (from + to) \div 2
             left == ScanRange(buf, from, mid, acc)
         IN  IF left = <<>>
             THEN ScanRange(buf, mid, to, <<>>)
             ELSE ScanRange(buf, mid, to, left)

\* the value of the digits from buf[k] on, after those of value acc
ScanDigits(buf, k, acc) == ScanRange(buf, k, DigitsEnd(buf, k), acc)

\* the decimal number at the start of the C string in buf: white space, an
\* optional sign, digits up to the first other character
ParseDecimal(buf) ==
    LET k == SkipSpaces(buf, 0)
        signed == k \in DOMAIN buf /\ buf[k] \in {"+", "-"}
        neg == k \in DOMAIN buf /\ buf[k] = "-"
    IN  Z(neg, ScanDigits(buf, IF signed THEN k + 1 ELSE k, <<>>))

\* Results of atoi for the number: its value when an int holds it.  The
\* conversion of any other value is undefined, and the C libraries keep its
\* low bits, or saturate at the ends of int, or saturate at the ends of long
\* (strtol) and keep the low bits of that.
Converted(num, bits, lbits) ==
    IF ZFits(num, bits)
    THEN {ZToInt(num)}
    ELSE { ZToInt(ZWrap(num, bits)),
           ZToInt(ZSaturate(num, bits)),
           ZToInt(ZWrap(ZSaturate(num, lbits), bits)) }

\* Results of atol for the number, a long of the width lbits: its value when
\* a long holds it, else its low bits or the end of the range.
ConvertedLong(num, lbits) ==
    IF ZFits(num, lbits)
    THEN {num}
    ELSE {ZWrap(num, lbits), ZSaturate(num, lbits)}

\* the index of the character at which atoi and atol stop reading: the first
\* one after the white space, the sign and the digits
NumeralEnd(buf) ==
    LET k == SkipSpaces(buf, 0)
    IN  DigitsEnd(buf, IF k \in DOMAIN buf /\ buf[k] \in {"+", "-"} THEN k + 1 ELSE k)

atoi(buf, bits, lbits) == Converted(ParseDecimal(buf), bits, lbits)

atol(buf, lbits) == ConvertedLong(ParseDecimal(buf), lbits)

---------------------------------------------------------------------------
(* The settings record *)

\* the record reset() restores
DefaultSettings ==
    [ magic       |-> "Energino",
      revision    |-> 1,
      period      |-> 2000,
      r1          |-> 100,
      r2          |-> 10,
      offset      |-> 2500,
      sensitivity |-> 185,
      relaypin    |-> 2,
      currentpin  |-> 0,
      voltagepin  |-> 1,
      apikey      |-> CStr(<<"k", "e", "y">>, ApikeyLen),
      feedid      |-> <<>>,
      feedsurl    |-> CStr(<<"u", "r", "l">>, FeedsurlLen) ]

\* a record an operator provisioned earlier
ProvisionedSettings ==
    [ DefaultSettings EXCEPT
        !.period = 500,
        !.r1 = 47,
        !.offset = 2490,
        !.feedid = NFromInt(7),
        !.apikey = CStr(Fill(48), ApikeyLen),
        !.feedsurl = CStr(Fill(59), FeedsurlLen) ]

\* saveSettings with too short a length: the last field is not written
saveSettingsShort(image, s) == [s EXCEPT !.feedsurl = image.feedsurl]

\* eeprom_write_block(&settings, 0, sizeof(settings)): the whole record
saveSettings(image, s) == s

\* eeprom_read_block(&settings, 0, sizeof(settings))
loadSettings(image) == image

\* reset(): back to the power-on defaults
reset(s) == DefaultSettings

---------------------------------------------------------------------------
(* Serial output and the effect of one command *)

\* Serial.print(pre); Serial.print(num); Serial.println(post)
NumLine(pre, num, post) == [pre |-> pre, hasNum |-> TRUE, num |-> num, post |-> post]

\* Serial.print(pre); Serial.println(post), both text
TextLine(pre, post) == [pre |-> pre, hasNum |-> FALSE, num |-> 0, post |-> post]

\* what a dispatch branch did: the settings it leaves, the lines it printed,
\* the levels it drove on the relay pin, the analogRead calls it made, its
\* local variable value (the number parsed; in the branch of 'T' the sum of
\* the reads), and whether control reached the saveSettings() call
Effect(s, echo, pins, nreads, value, save) ==
    [settings |-> s, echo |-> echo, pins |-> pins, nreads |-> nreads,
     value |-> value, save |-> save]

\* dumpSettings()
dumpSettings(s) ==
    << TextLine("@magic: ", s.magic),
       NumLine("@revision: ", s.revision, ""),
       NumLine("@period: ", s.period, " ms"),
       NumLine("@r1: ", s.r1, " Kohm"),
       NumLine("@r2: ", s.r2, " Kohm"),
       NumLine("@offset: ", s.offset, " mV"),
       NumLine("@sensitivity: ", s.sensitivity, " mV/A"),
       NumLine("@relaypin: ", s.relaypin, ""),
       NumLine("@currentpin: ", s.currentpin, ""),
       NumLine("@voltagepin: ", s.voltagepin, "") >>

---------------------------------------------------------------------------
(* The analog input *)

\* a level that settles during the run: 659 for the first 463 reads, 658 for
\* the rest
Settling == [k \in 1..CalReads |-> IF k <= 463 THEN 659 ELSE 658]

\* signals on the current-sense pin: the levels successive reads return
AnalogPatterns == { <<0>>, <<1023>>, Settling }

\* the i-th analogRead(settings.currentpin) of a calibration run
analogRead(pat, i) == pat[(i % Len(pat)) + 1]

\* The sum and the number of the reads i = from .. to-1 of the loop
\* for(long i = 0; i < 1000; i++) value += analogRead(...), the range split
\* in halves so that the evaluation stays shallow.
RECURSIVE ReadRange(_, _, _)
ReadRange(pat, from, to) ==
    IF to <= from
    THEN [value |-> 0, reads |-> 0]
    ELSE IF to = from + 1
    THEN [value |-> analogRead(pat, from), reads |-> 1]
    ELSE LET mid == (from + to) \div 2
             a == ReadRange(pat, from, mid)
             b == ReadRange(pat, mid, to)
         IN  [value |-> a.value + b.value, reads |-> a.reads + b.reads]

\* CalibrationLoop with the loop test i <= 1000
CalibrationLoopInclusive(pat) == ReadRange(pat, 0, CalReads + 1)

\* long value = 0; for(long i = 0; i < 1000; i++) value += analogRead(...)
CalibrationLoop(pat) == ReadRange(pat, 0, CalReads)

\* the run of the loop on each signal of the model
CalibrationRuns == [pat \in AnalogPatterns |-> CalibrationLoop(pat)]

---------------------------------------------------------------------------
(* Doubles *)

\* The widths a double has in a build: the 32-bit IEEE single of the AVR
\* boards, the 64-bit IEEE double elsewhere.
DoubleWidths == {32, 64}

\* bits of the significand
Precision(w) == IF w = 32 THEN 24 ELSE 53

\* finite values lie below 2^MaxExponent(w)
MaxExponent(w) == IF w = 32 THEN 128 ELSE 1024

\* the exponent of the last bit of the subnormal values, the least exponent
\* a bit of a value has
MinExponent(w) == IF w = 32 THEN -149 ELSE -1074

\* A finite double is (-1)^neg * man * 2^exp with man odd, or a zero (man
\* empty) with its sign; cls tells the infinities and NaN from the finite
\* values.  Results are rounded to nearest, ties to even, to the bits of the
\* significand or, below the normal values, to the bits a subnormal value
\* has.
Zero == [cls |-> "fin", neg |-> FALSE, man |-> <<>>, exp |-> 0]

Inf(neg) == [cls |-> "inf", neg |-> neg, man |-> <<>>, exp |-> 0]

NaN == [cls |-> "nan", neg |-> FALSE, man |-> <<>>, exp |-> 0]

IsFinite(x) == x.cls = "fin"

IsNaN(x) == x.cls = "nan"

IsZero(x) == x.cls = "fin" /\ x.man = <<>>

Abs(n) == IF n < 0 THEN -n ELSE n

\* the double man * 2^exp, exactly
Exact(neg, man, exp) ==
    IF man = <<>>
    THEN [Zero EXCEPT !.neg = neg]
    ELSE LET z == NLowZeros(man)
         IN  [cls |-> "fin", neg |-> neg, man |-> NShr(man, z), exp |-> exp + z]

\* The value man * 2^exp (and what sticky stands for) with its last k bits
\* rounded away, to nearest and ties to even; the value itself for k <= 0.
RoundAt(neg, man, exp, sticky, k, w) ==
    LET q == NShr(man, k)
        r == NSub(man, NShl(q, k))
        half == NCmp(r, NShl(<<1>>, k - 1))
        up == half > 0 \/ (half = 0 /\ (sticky \/ (q # <<>> /\ q[1] % 2 = 1)))
        m == IF k <= 0 THEN man ELSE IF up THEN NAdd(q, <<1>>) ELSE q
        e == IF k <= 0 THEN exp ELSE exp + k
    IN  IF NBitLen(m) + e > MaxExponent(w) THEN Inf(neg) ELSE Exact(neg, m, e)

\* The double nearest to a value v with man * 2^exp <= |v| < (man + 1) * 2^exp,
\* where sticky tells that |v| is above man * 2^exp; man has two bits more
\* than the significand whenever sticky is set.  The bits rounded away are
\* those beyond the significand or, when that is more, those below the last
\* bit of the subnormal values.
Round(neg, man, exp, sticky, w) ==
    LET shifts == {NBitLen(man) - Precision(w), MinExponent(w) - exp}
    IN  CHOOSE d \in { RoundAt(neg, man, exp, sticky, k, w) :
                         k \in {s \in shifts : \A t \in shifts : t <= s} } : TRUE

\* the conversion int -> double of an integer of at most 32 bits
FromInt(n, w) ==
    Round(n < 0, IF n = MinOf(LongBits) THEN ZHalf(LongBits) ELSE NFromInt(Abs(n)),
          0, FALSE, w)

\* -x
DNeg(x) == IF IsNaN(x) THEN x ELSE [x EXCEPT !.neg = ~x.neg]

\* x * y
DMul(x, y, w) ==
    IF IsNaN(x) \/ IsNaN(y) THEN NaN
    ELSE IF ~IsFinite(x) \/ ~IsFinite(y)
    THEN (IF IsZero(x) \/ IsZero(y) THEN NaN ELSE Inf(x.neg # y.neg))
    ELSE Round(x.neg # y.neg, NMul(x.man, y.man), x.exp + y.exp, FALSE, w)

\* x / y
DDiv(x, y, w) ==
    IF IsNaN(x) \/ IsNaN(y) THEN NaN
    ELSE IF ~IsFinite(y) THEN (IF IsFinite(x) THEN Exact(x.neg # y.neg, <<>>, 0) ELSE NaN)
    ELSE IF IsZero(y) THEN (IF IsZero(x) THEN NaN ELSE Inf(x.neg # y.neg))
    ELSE IF ~IsFinite(x) THEN Inf(x.neg # y.neg)
    ELSE IF IsZero(x) THEN Exact(x.neg # y.neg, <<>>, 0)
    ELSE LET need == Precision(w) + 2 + NBitLen(y.man) - NBitLen(x.man)
             k == IF need > 0 THEN need ELSE 0
             d == NDivMod(NShl(x.man, k), y.man)
         IN  Round(x.neg # y.neg, d.quot, x.exp - y.exp - k, d.rem # <<>>, w)

\* x + y; a sum that is exactly zero is +0.0 unless both terms are -0.0
DAdd(x, y, w) ==
    IF IsNaN(x) \/ IsNaN(y) THEN NaN
    ELSE IF ~IsFinite(x)
    THEN (IF ~IsFinite(y) /\ x.neg # y.neg THEN NaN ELSE x)
    ELSE IF ~IsFinite(y) THEN y
    ELSE LET e == IF IsZero(x) THEN y.exp
                  ELSE IF IsZero(y) \/ x.exp < y.exp THEN x.exp ELSE y.exp
             a == IF IsZero(x) THEN <<>> ELSE NShl(x.man, x.exp - e)
             b == IF IsZero(y) THEN <<>> ELSE NShl(y.man, y.exp - e)
         IN  IF x.neg = y.neg
             THEN Round(x.neg, NAdd(a, b), e, FALSE, w)
             ELSE IF a = b
             THEN Zero
             ELSE IF NCmp(a, b) > 0
             THEN Round(x.neg, NSub(a, b), e, FALSE, w)
             ELSE Round(y.neg, NSub(b, a), e, FALSE, w)

\* |x|
DAbs(x) == IF IsNaN(x) THEN x ELSE [x EXCEPT !.neg = FALSE]

\* x - y
DSub(x, y, w) == DAdd(x, DNeg(y), w)

\* x > 0; false of NaN
DPositive(x) == ~IsNaN(x) /\ ~IsZero(x) /\ ~x.neg

\* x > y
DGreater(x, y, w) == DPositive(DSub(x, y, w))

\* the magnitude of the whole part of a finite x
TruncMag(x) ==
    IF IsZero(x) THEN <<>>
    ELSE IF x.exp >= 0 THEN NShl(x.man, x.exp)
    ELSE NShr(x.man, -x.exp)

\* the whole part of x fits a signed integer of the given width
InRange(x, bits) ==
    /\ IsFinite(x)
    /\ \/ NBitLen(TruncMag(x)) < bits
       \/ x.neg /\ TruncMag(x) = NShl(<<1>>, bits - 1)

\* the whole part of a double that has one of the given width, towards zero
Trunc(x, bits) ==
    IF NBitLen(TruncMag(x)) < bits
    THEN (IF x.neg THEN -NToInt(TruncMag(x)) ELSE NToInt(TruncMag(x)))
    ELSE MinOf(bits)

\* What a build makes of the conversion to int of a double that has no int
\* value, which is undefined: the one value 0x80..0 for every operand; the
\* nearest end of the range, and 0 for NaN; or, where the conversion goes
\* through a long, the low bits of that long, which is 0x80000000 when the
\* double has no long value either.
CastModes == {"indefinite", "saturating", "narrowing"}

\* the conversion double -> int of a function returning int
DToInt(x, bits, mode) ==
    IF InRange(x, bits)
    THEN Trunc(x, bits)
    ELSE IF mode = "indefinite"
    THEN MinOf(bits)
    ELSE IF mode = "saturating"
    THEN (IF IsNaN(x) THEN 0 ELSE IF x.neg THEN MinOf(bits) ELSE MaxOf(bits))
    ELSE IF InRange(x, LongBits)
    THEN Wrap(Trunc(x, LongBits), bits)
    ELSE Wrap(MinOf(LongBits), bits)

---------------------------------------------------------------------------
(* Unit conversion *)

\* output / 1000.0: mV to V, mA per mV/A
Milli == 1000

\* double res(int aref) { return aref / 1024.0; }
res(aref, w) == DDiv(FromInt(aref, w), FromInt(AdcSteps, w), w)

\* settings.r1 + settings.r2, a sum of two ints
DividerSum(s, bits) == AddWrap(s.r1, s.r2, bits)

\* int getVError(int aref): the double quotient converted to int on return
getVError(s, aref, bits, mode, w) ==
    DToInt(DDiv(DMul(res(aref, w), FromInt(DividerSum(s, bits), w), w),
                FromInt(s.r2, w), w),
           bits, mode)

\* int getIError(int aref)
getIError(s, aref, bits, mode, w) ==
    DToInt(DMul(DDiv(res(aref, w), FromInt(s.sensitivity, w), w), FromInt(Milli, w), w),
           bits, mode)

\* double getAvgVoltage(double value, int aref)
getAvgVoltage(s, value, aref, bits, w) ==
    LET v_out == DMul(value, res(aref, w), w)
        output == DDiv(DMul(v_out, FromInt(DividerSum(s, bits), w), w),
                       FromInt(s.r2, w), w)
    IN  IF DPositive(output) THEN DDiv(output, FromInt(Milli, w), w) ELSE Zero

\* getAvgCurrent without the test output > 0
getAvgCurrentRaw(s, value, aref, w) ==
    LET v_out == DMul(value, res(aref, w), w)
    IN  DDiv(DSub(v_out, FromInt(s.offset, w), w), FromInt(s.sensitivity, w), w)

\* double getAvgCurrent(double value, int aref)
getAvgCurrent(s, value, aref, w) ==
    LET v_out == DMul(value, res(aref, w), w)
        output == DDiv(DSub(v_out, FromInt(s.offset, w), w), FromInt(s.sensitivity, w), w)
    IN  IF DPositive(output) THEN output ELSE Zero

\* double getAvgPower(double voltage, double current, int aref)
getAvgPower(s, voltage, current, aref, bits, w) ==
    DMul(getAvgVoltage(s, voltage, aref, bits, w), getAvgCurrent(s, current, aref, w), w)

\* CalibrationOffset measured from mid-scale instead of from zero
CalibrationOffsetCentred(value, aref, w, mode) ==
    DToInt(DDiv(DMul(FromInt(value, w), res(aref, w), w), FromInt(CalReads, w), w),
           LongBits, mode) - aref \div 2

\* long v_out = (value * res(aref)) / 1000: value converted to double, the
\* product and the quotient rounded, the quotient converted to a long.  The
\* sum of 1000 reads is at most 1023000, so the quotient is below aref in
\* magnitude and a long of either width holds its whole part.
CalibrationOffset(value, aref, w, mode) ==
    DToInt(DDiv(DMul(FromInt(value, w), res(aref, w), w), FromInt(CalReads, w), w),
           LongBits, mode)

---------------------------------------------------------------------------
(* serParseCommand: the read loop *)

\* inputBytes[idx] = chr.  A store at an index past the array lands in the
\* stack frame above it, kept in `above`; the array itself is untouched.
Store(st, idx, chr) ==
    [st EXCEPT
        !.inputBytes = IF idx \in DOMAIN @ THEN [@ EXCEPT ![idx] = chr] ELSE @,
        !.above = IF idx \in DOMAIN st.inputBytes THEN @ ELSE (idx :> chr) @@ @,
        !.stores = Append(@, idx)]

\* char cmd = '\0'; char inputBytes[60] = {'\0'}
LoopStart ==
    [ cmd        |-> NUL,
      inputBytes |-> CStr(<<>>, InputLen),
      above      |-> <<>>,
      stores     |-> <<>>,
      nread      |-> 0,
      malformed  |-> FALSE ]

\* LoopBody with the test for '#' made at every index: a later '#' is
\* skipped as the first one is
LoopBodySkipsMarkers(rx, i, st) ==
    IF st.malformed
    THEN st
    ELSE LET chr == rx[i + 1]
             rd == [st EXCEPT !.nread = @ + 1]
         IN  IF i = 0
             THEN IF chr # "#" THEN [rd EXCEPT !.malformed = TRUE] ELSE rd
             ELSE IF chr = "#"
             THEN rd
             ELSE IF i = 1
             THEN [rd EXCEPT !.cmd = chr]
             ELSE Store(rd, i - 2, chr)

\* The body of the read loop at index i: char chr = Serial.read(), then the
\* branches on i.  Once the call has returned from inside the loop the
\* remaining iterations do not happen.
LoopBody(rx, i, st) ==
    IF st.malformed
    THEN st
    ELSE LET chr == rx[i + 1]
             rd == [st EXCEPT !.nread = @ + 1]
         IN  IF i = 0
             THEN IF chr # "#" THEN [rd EXCEPT !.malformed = TRUE] ELSE rd
             ELSE IF i = 1
             THEN [rd EXCEPT !.cmd = chr]
             ELSE Store(rd, i - 2, chr)

\* The iterations i = from .. to-1 of for (i = 0; i < serAva; i++), in
\* order, the range split in halves so that the evaluation stays shallow.
RECURSIVE ReadLoop(_, _, _, _)
ReadLoop(rx, from, to, st) ==
    IF to <= from
    THEN st
    ELSE IF to = from + 1
    THEN LoopBody(rx, from, st)
    ELSE LET mid == (from + to) \div 2
             left == ReadLoop(rx, from, mid, st)
         IN  IF left.malformed THEN left ELSE ReadLoop(rx, mid, to, left)

\* the loop, then inputBytes[i] = '\0' with i = serAva, unless the call
\* returned inside the loop
ReadCommand(rx) ==
    LET st == ReadLoop(rx, 0, Len(rx), LoopStart)
    IN  IF st.malformed THEN st ELSE Store(st, Len(rx), NUL)

\* What the stack can hold in a byte above inputBytes that the loop did not
\* store: any byte.  atoi and atol tell bytes apart as digits, blanks, signs,
\* the terminator and the rest, so one byte of each of the last four kinds
\* stands for those they treat alike.
StaleBytes == Digits \cup {NUL, " ", "-", "+", "x"}

\* atoi and atol read past the end of the array when it holds no NUL
ReadsPast(st) == \A k \in DOMAIN st.inputBytes : st.inputBytes[k] # NUL

\* The indices above inputBytes that the conversions read and the call did
\* not store: those between the last payload byte and the NUL stored at
\* index serAva.
Unwritten(st) ==
    IF ReadsPast(st)
    THEN {k \in InputLen..st.stores[Len(st.stores)] : k \notin DOMAIN st.above}
    ELSE {}

\* The bytes of the C string at inputBytes that the call has defined: those
\* of the array and, when it holds no NUL, what the loop stored above it and
\* the NUL stored at index serAva.
Written(st) ==
    IF ~ReadsPast(st)
    THEN st.inputBytes
    ELSE [ k \in (0..st.stores[Len(st.stores)]) \ Unwritten(st) |->
             IF k \in DOMAIN st.inputBytes THEN st.inputBytes[k] ELSE st.above[k] ]

\* The unwritten bytes atoi and atol read: none when the numeral ends at a
\* byte the call stored, since the conversions stop there.
Reached(st) ==
    IF NumeralEnd(Written(st)) \in Unwritten(st) THEN Unwritten(st) ELSE {}

\* The bytes atoi(inputBytesPtr) and atol(inputBytesPtr) read: the written
\* ones and stale[k] at an unwritten index k, each such byte on its own.
\* The read past the array is undefined.
Scanned(st, stale) == stale @@ Written(st)

\* The stores that fell outside inputBytes.
Overflow(stores) == {k \in 1..Len(stores) : stores[k] >= InputLen}

\* How the call ends: a frame whose saved registers and return address were
\* overwritten is unwound by the epilogue, which either still returns or
\* does not.
EpilogueOutcomes(stores) ==
    IF Overflow(stores) = {} THEN {"running"} ELSE {"running", "crashed"}

---------------------------------------------------------------------------
(* serParseCommand: the dispatch *)

\* NegativeRejected with the sign test left out
NegativeAccepted(value) == FALSE

\* if (value < 0) return;
NegativeRejected(value) == value < 0

\* if (value >= 0) settings.feedid = value; value is a long
FeedIdAccepted(value) == ~value.neg

\* RelayLevel with the comparison off by one
RelayLevelFromZero(value) == IF value >= 0 THEN HIGH ELSE LOW

\* if (value > 0) digitalWrite(relaypin, HIGH) else digitalWrite(relaypin, LOW)
RelayLevel(value) == IF value > 0 THEN HIGH ELSE LOW

\* cmd == 'R'
CmdReset(s) ==
    Effect(reset(s), <<TextLine("@reset", "")>>, <<>>, 0, 0, TRUE)

\* CmdDump returning once the dump is printed
CmdDumpReturns(s) ==
    Effect(s, dumpSettings(s), <<>>, 0, 0, FALSE)

\* cmd == 'Z'
CmdDump(s) ==
    Effect(s, dumpSettings(s), <<>>, 0, 0, TRUE)

\* cmd == 'T'
CmdCalibrate(s, aref, pat, bits, w, mode) ==
    LET run == CalibrationRuns[pat]
        v_out == CalibrationOffset(run.value, aref, w, mode)
    IN  Effect([s EXCEPT !.offset = Wrap(v_out, bits)],
               <<NumLine("@offset: ", v_out, "")>>, <<>>, run.reads, run.value, TRUE)

\* cmd == 'F'
CmdFeedId(s, value) ==
    Effect(IF FeedIdAccepted(value) THEN [s EXCEPT !.feedid = value.mag] ELSE s,
           <<>>, <<>>, 0, value, TRUE)

\* SetApikey without the terminating store
SetApikeyUnterminated(old, inputBytes) == strncpy(old, inputBytes, ApikeyLen)

\* strncpy(settings.apikey, inputBytes, 49); settings.apikey[48] = '\0'
SetApikey(old, inputBytes) ==
    [strncpy(old, inputBytes, ApikeyLen) EXCEPT ![ApikeyLast] = NUL]

\* strncpy(settings.feedsurl, inputBytes, 60); settings.feedsurl[59] = '\0'
SetFeedsurl(old, inputBytes) ==
    [strncpy(old, inputBytes, FeedsurlLen) EXCEPT ![FeedsurlLast] = NUL]

\* cmd == 'K'
CmdApiKey(s, inputBytes) ==
    Effect([s EXCEPT !.apikey = SetApikey(@, inputBytes)], <<>>, <<>>, 0, 0, TRUE)

\* cmd == 'U'
CmdFeedsUrl(s, inputBytes) ==
    Effect([s EXCEPT !.feedsurl = SetFeedsurl(@, inputBytes)], <<>>, <<>>, 0, 0, TRUE)

\* CmdNumeric with the switch as the last, untested alternative: a plain
\* else in place of else if (cmd == 'S')
CmdNumericSwitchLast(s, cmd, value) ==
    IF NegativeRejected(value)
    THEN Effect(s, <<>>, <<>>, 0, value, FALSE)
    ELSE CASE cmd = "P" ->
                Effect([s EXCEPT !.period = value],
                       <<NumLine("@period: ", value, "ms")>>, <<>>, 0, value, TRUE)
           [] cmd = "A" ->
                Effect([s EXCEPT !.r1 = value],
                       <<NumLine("R1: ", value, " Kohm")>>, <<>>, 0, value, TRUE)
           [] cmd = "B" ->
                Effect([s EXCEPT !.r2 = value],
                       <<NumLine("R2: ", value, " Kohm")>>, <<>>, 0, value, TRUE)
           [] cmd = "C" ->
                Effect([s EXCEPT !.offset = value],
                       <<NumLine("Offeset: ", value, " mV")>>, <<>>, 0, value, TRUE)
           [] cmd = "D" ->
                Effect([s EXCEPT !.sensitivity = value],
                       <<NumLine("Sensitivity: ", value, " mV/A")>>, <<>>, 0, value, TRUE)
           [] OTHER ->
                Effect(s,
                       <<TextLine(IF RelayLevel(value) = HIGH
                                  THEN "@switch: high" ELSE "@switch: low", "")>>,
                       <<RelayLevel(value)>>, 0, value, TRUE)

\* the final else branch: P, A, B, C, D, S and every other command byte
CmdNumeric(s, cmd, value) ==
    IF NegativeRejected(value)
    THEN Effect(s, <<>>, <<>>, 0, value, FALSE)
    ELSE CASE cmd = "P" ->
                Effect([s EXCEPT !.period = value],
                       <<NumLine("@period: ", value, "ms")>>, <<>>, 0, value, TRUE)
           [] cmd = "A" ->
                Effect([s EXCEPT !.r1 = value],
                       <<NumLine("R1: ", value, " Kohm")>>, <<>>, 0, value, TRUE)
           [] cmd = "B" ->
                Effect([s EXCEPT !.r2 = value],
                       <<NumLine("R2: ", value, " Kohm")>>, <<>>, 0, value, TRUE)
           [] cmd = "C" ->
                Effect([s EXCEPT !.offset = value],
                       <<NumLine("Offeset: ", value, " mV")>>, <<>>, 0, value, TRUE)
           [] cmd = "D" ->
                Effect([s EXCEPT !.sensitivity = value],
                       <<NumLine("Sensitivity: ", value, " mV/A")>>, <<>>, 0, value, TRUE)
           [] cmd = "S" ->
                Effect(s,
                       <<TextLine(IF RelayLevel(value) = HIGH
                                  THEN "@switch: high" ELSE "@switch: low", "")>>,
                       <<RelayLevel(value)>>, 0, value, TRUE)
           [] OTHER ->
                Effect(s, <<>>, <<>>, 0, value, TRUE)

\* the commands with a branch of their own before the final else
OwnBranch == {"R", "Z", "T", "F", "K", "U"}

\* the if / else-if chain on cmd; ival and lval are the results of atoi and atol
Dispatch(s, cmd, inputBytes, aref, pat, bits, w, mode, ival, lval) ==
    CASE cmd = "R" -> CmdReset(s)
      [] cmd = "Z" -> CmdDump(s)
      [] cmd = "T" -> CmdCalibrate(s, aref, pat, bits, w, mode)
      [] cmd = "F" -> CmdFeedId(s, lval)
      [] cmd = "K" -> CmdApiKey(s, inputBytes)
      [] cmd = "U" -> CmdFeedsUrl(s, inputBytes)
      [] OTHER     -> CmdNumeric(s, cmd, ival)

---------------------------------------------------------------------------
(* Input batches *)

\* '#', a command byte, a payload
Frame(cmd, payload) == <<"#", cmd>> \o payload

\* numeric payloads: a decimal and a negative number
BasicPayloads == { <<"5", "0">>, <<"-", "5">> }

\* the numeral of 3 * 10^9, wider than 32 bits
ThreeBillion == <<"3", "0", "0", "0", "0", "0", "0", "0", "0", "0">>

\* the numeral of 10^20 - 1, wider than 64 bits
Nines == [k \in 1..20 |-> "9"]

\* further numeric payloads: zero, empty, not a number, wider than 16 bits,
\* wider than 32 bits
EdgePayloads ==
    { <<"0">>, <<>>, <<"x">>, <<"4", "0", "0", "0", "0">>, ThreeBillion }

\* a payload that fills inputBytes with blanks and goes on above it
Blanks(p) == [k \in 1..InputLen |-> " "] \o p

\* a numeral whose leading zeros fill inputBytes and whose last digits lie
\* above it
Zeros(p) == [k \in 1..InputLen |-> "0"] \o p

\* the commands that store a number
SetCommands == {"F", "P", "A", "B", "C", "D"}

\* payload lengths around the capacities of apikey, feedsurl and inputBytes
KeyLengths == {2, 48, 49, 60, MaxAvail - 2}

UrlLengths == {2, 57, 58, 60, MaxAvail - 2}

InputBatches ==
    {Frame(c, p) : c \in SetCommands \cup {"S", "Q"}, p \in BasicPayloads}
    \cup {Frame(c, p) : c \in {"P", "S"}, p \in EdgePayloads}
    \cup {Frame("F", <<"0">>), Frame("Q", Fill(MaxAvail - 2))}
    \cup {Frame("P", <<"\t", "7", "\n">>)}
    \cup {Frame("P", Nines), Frame("P", <<"-">> \o Nines), Frame("F", ThreeBillion)}
    \cup {Frame("P", Blanks(<<"-", "5">>)), Frame("P", <<"0", "0", "7">>)}
    \cup {Frame("K", Fill(n)) : n \in KeyLengths}
    \cup {Frame("U", Fill(n)) : n \in UrlLengths}
    \cup {Frame(c, <<>>) : c \in {"R", "Z", "T", "Q"}}
    \cup { <<"#">>,
           <<"X", "P", "5", "0">>,
           <<"X", "#", "P", "5", "0">>,
           <<"#", "P", "5", "0", "#", "A", "1", "0">> }

\* Batches whose numeral fills inputBytes and ends above it, where the two
\* bytes below the NUL stored at index serAva were never written, next to
\* numerals that fit, a padded one, a calibration, a reset and a batch
\* without the marker.  Every numeral is within the int of each build.
OverrunBatches ==
    { Frame("P", Zeros(<<"7">>)),
      Frame("P", Zeros(<<"4", "2">>)),
      Frame("P", Blanks(<<"-", "5">>)),
      Frame("P", Blanks(<<>>)),
      Frame("F", Zeros(<<"1">>)),
      Frame("P", <<"0", "0", "7">>),
      Frame("P", <<"5", "0">>),
      Frame("A", <<"5", "0">>),
      Frame("T", <<>>),
      Frame("R", <<>>),
      <<"X">> }

\* reference voltages passed to serParseCommand(aref): serParseCommand()
\* passes DEFAULT_AREF, and a caller may pass any int, zero and negative ones
\* included
Arefs == {DEFAULT_AREF, 3300, 0, -3300}

---------------------------------------------------------------------------
(* The state machine *)

\* the history of a call that has not happened
NoCall(s) ==
    [ kind       |-> "none",
      input      |-> <<>>,
      nread      |-> 0,
      dispatched |-> FALSE,
      cmd        |-> NUL,
      inputBytes |-> LoopStart.inputBytes,
      stores     |-> <<>>,
      value      |-> 0,
      echo       |-> <<>>,
      pins       |-> <<>>,
      nreads     |-> 0,
      aref       |-> 0,
      saves      |-> 0,
      pre        |-> s,
      preRelay   |-> relay ]

\* the history of dumpToSerial when no call has happened since the state
\* last changed
NoReport ==
    [ n        |-> 0,
      aref     |-> 0,
      line     |-> <<>>,
      prevAref |-> 0,
      prevLine |-> <<>>,
      volts    |-> Zero,
      amps     |-> Zero,
      verror   |-> 0,
      pre      |-> <<>> ]

\* The widths of int, long and double in the builds: 16, 32 and 32 bits on
\* the AVR boards the header is written for (<avr/eeprom.h>); 32, 64 and 64
\* bits where it is built on a 64-bit host.
Builds == { <<16, 32, 32>>, <<32, 64, 64>> }

\* The EEPROM holds a record provisioned earlier and setup has loaded it:
\* loadSettings().  The readings are as the globals are initialized.  No
\* conversion serParseCommand makes is undefined for the reference voltages
\* of Arefs, so castMode plays no part in what the parser does and its
\* behaviours are followed for one value of it.
Init ==
    /\ eeprom = ProvisionedSettings
    /\ settings = loadSettings(eeprom)
    /\ serial = <<>>
    /\ relay = LOW
    /\ status = "running"
    /\ call = NoCall(settings)
    /\ batch = <<>>
    /\ \E b \in Builds : intBits = b[1] /\ longBits = b[2] /\ dblBits = b[3]
    /\ arrivals = 0
    /\ VFinal = Zero
    /\ IFinal = Zero
    /\ lastSamples = 0
    /\ castMode = "indefinite"
    /\ report = NoReport

\* The transport has delivered a batch, one of at most `most`: the bytes
\* that accumulated in the receive buffer since the call that emptied it.
Deliver(b, most) ==
    /\ status = "running"
    /\ arrivals < most
    /\ serial = <<>>
    /\ Len(b) <= MaxAvail
    /\ serial' = b
    /\ batch' = b
    /\ arrivals' = arrivals + 1
    /\ call' = NoCall(settings)
    /\ UNCHANGED <<settings, eeprom, relay, status, build>>
    /\ UNCHANGED telemetry

\* a batch of InputBatches arrives
Arrive(b) == Deliver(b, MaxArrivals)

\* a batch of OverrunBatches arrives
ArriveOverrun(b) == Deliver(b, MaxOverruns)

\* if (!Serial.available()) return;
ParseIdle ==
    /\ call' = [NoCall(settings) EXCEPT !.kind = "idle"]
    /\ UNCHANGED <<settings, eeprom, serial, relay, status, batch, build, arrivals>>
    /\ UNCHANGED telemetry

\* the first byte read is not '#': return from inside the loop
ParseMalformed(st) ==
    /\ serial' = SubSeq(serial, st.nread + 1, Len(serial))
    /\ call' = [NoCall(settings) EXCEPT
                    !.kind = "malformed", !.input = serial, !.nread = st.nread]
    /\ UNCHANGED <<settings, eeprom, relay, status, batch, build, arrivals>>
    /\ UNCHANGED telemetry

\* The frame is read and its command executed.  atoi runs in the final else
\* branch alone, atol in the branch of 'F', the analog reads in that of 'T'.
\* Both conversions read the C string that starts at inputBytes: it ends
\* inside the array, or above it when the payload filled the array, and then
\* it runs through bytes the call did not store, which hold anything.
ParseFrame(st, aref) ==
    \E stale \in [IF st.cmd \in OwnBranch \ {"F"} THEN {} ELSE Reached(st)
                    -> StaleBytes] :
    \E ival \in IF st.cmd \in OwnBranch
                THEN {0} ELSE atoi(Scanned(st, stale), intBits, longBits),
       lval \in IF st.cmd = "F"
                THEN atol(Scanned(st, stale), longBits) ELSE {Z(FALSE, <<>>)},
       pat \in IF st.cmd = "T" THEN AnalogPatterns ELSE {<<0>>} :
        LET eff == Dispatch(settings, st.cmd, st.inputBytes, aref, pat,
                            intBits, dblBits, castMode, ival, lval)
        IN  /\ serial' = SubSeq(serial, st.nread + 1, Len(serial))
            /\ settings' = eff.settings
            /\ eeprom' = IF eff.save THEN saveSettings(eeprom, eff.settings) ELSE eeprom
            /\ relay' = IF eff.pins = <<>> THEN relay ELSE eff.pins[Len(eff.pins)]
            /\ status' \in EpilogueOutcomes(st.stores)
            /\ call' = [ kind       |-> "frame",
                         input      |-> serial,
                         nread      |-> st.nread,
                         dispatched |-> TRUE,
                         cmd        |-> st.cmd,
                         inputBytes |-> st.inputBytes,
                         stores     |-> st.stores,
                         value      |-> eff.value,
                         echo       |-> eff.echo,
                         pins       |-> eff.pins,
                         nreads     |-> eff.nreads,
                         aref       |-> IF eff.nreads > 0 THEN aref ELSE 0,
                         saves      |-> IF eff.save THEN 1 ELSE 0,
                         pre        |-> settings,
                         preRelay   |-> relay ]
            /\ UNCHANGED <<batch, build, arrivals>>
            /\ UNCHANGED telemetry

\* void serParseCommand(int aref)
serParseCommand(aref) ==
    /\ status = "running"
    /\ IF Len(serial) = 0
       THEN ParseIdle
       ELSE LET st == ReadCommand(serial)
            IN  IF st.malformed
                THEN ParseMalformed(st)
                ELSE ParseFrame(st, aref)

Next ==
    \/ \E b \in InputBatches : Arrive(b)
    \/ \E aref \in Arefs : serParseCommand(aref)

Spec == Init /\ [][Next]_vars

NextOverrun ==
    \/ \E b \in OverrunBatches : ArriveOverrun(b)
    \/ \E aref \in Arefs : serParseCommand(aref)

\* The parser fed numerals that fill inputBytes, so that atoi and atol read
\* the bytes above it that the call left as they were.
SpecOverrun == Init /\ [][NextOverrun]_vars

\* the types of the state
TypeOK ==
    /\ status \in {"running", "crashed"}
    /\ relay \in {LOW, HIGH}
    /\ arrivals \in 0..MaxArrivals
    /\ Len(serial) <= MaxAvail
    /\ DOMAIN settings.apikey = 0..(ApikeyLen - 1)
    /\ DOMAIN settings.feedsurl = 0..(FeedsurlLen - 1)
    /\ call.kind \in {"none", "idle", "malformed", "frame"}
    /\ intBits \in IntWidths
    /\ lastSamples >= 0
    /\ castMode \in CastModes
    /\ dblBits \in DoubleWidths
    /\ longBits \in LongWidths
    /\ report.n \in 0..MaxReports

---------------------------------------------------------------------------
(* Telemetry *)

\* int V_DIGITS = 3
V_DIGITS == 3

\* int C_DIGITS = 3
C_DIGITS == 3

\* int P_DIGITS = 2
P_DIGITS == 2

\* Serial.print of a string
PrintText(t) == [kind |-> "text", text |-> t, num |-> 0, digits |-> <<>>]

\* Serial.print of an integer
PrintInt(n) == [kind |-> "int", text |-> "", num |-> n, digits |-> <<>>]

\* the largest magnitude Serial.print writes out, 4294967040.0 = PrintLimit * 2^8
PrintLimit == 16777215

\* double rounding = 0.5; for (i = 0; i < digits; ++i) rounding /= 10.0;
RECURSIVE Rounding(_, _)
Rounding(digits, w) ==
    IF digits = 0
    THEN Exact(FALSE, <<1>>, -1)
    ELSE DDiv(Rounding(digits - 1, w), FromInt(10, w), w)

\* while (digits-- > 0) { remainder *= 10.0; toPrint = (unsigned int) remainder;
\* print(toPrint); remainder -= toPrint; }
RECURSIVE PrintDigits(_, _, _)
PrintDigits(remainder, digits, w) ==
    IF digits = 0
    THEN <<>>
    ELSE LET scaled == DMul(remainder, FromInt(10, w), w)
             toPrint == NToInt(TruncMag(scaled))
         IN  <<toPrint>> \o PrintDigits(DSub(scaled, FromInt(toPrint, w), w), digits - 1, w)

\* Serial.print(x, digits) of a double: "nan", "inf", "ovf", or the sign, the
\* whole part of |x| + rounding (an unsigned long, here a natural) and
\* `digits` decimals, each a digit cut off the remainder
PrintFloat(x, digits, w) ==
    IF IsNaN(x) THEN PrintText("nan")
    ELSE IF ~IsFinite(x) THEN PrintText("inf")
    ELSE IF DGreater(DAbs(x), Exact(FALSE, NFromInt(PrintLimit), 8), w) THEN PrintText("ovf")
    ELSE LET number == DAdd(DAbs(x), Rounding(digits, w), w)
             int_part == TruncMag(number)
             remainder == DSub(number, Round(FALSE, int_part, 0, FALSE, w), w)
         IN  [ kind   |-> "float",
               text   |-> IF x.neg /\ ~IsZero(x) THEN "-" ELSE "",
               num    |-> int_part,
               digits |-> PrintDigits(remainder, digits, w) ]

\* the fields dumpToSerial(aref) prints after '#', between the commas
TelemetryLine(aref) ==
    << PrintText(settings.magic),
       PrintInt(settings.revision),
       PrintFloat(getAvgVoltage(settings, VFinal, aref, intBits, dblBits), V_DIGITS, dblBits),
       PrintFloat(getAvgCurrent(settings, IFinal, aref, dblBits), C_DIGITS, dblBits),
       PrintFloat(getAvgPower(settings, VFinal, IFinal, aref, intBits, dblBits), P_DIGITS, dblBits),
       PrintInt(relay),
       PrintInt(settings.period),
       PrintInt(lastSamples),
       PrintInt(getVError(settings, aref, intBits, castMode, dblBits)),
       PrintInt(getIError(settings, aref, intBits, castMode, dblBits)) >>

\* the state dumpToSerial reads
Reported == <<settings, eeprom, relay, VFinal, IFinal, lastSamples>>

\* the history of a dumpToSerial(aref) call
Report(aref) ==
    [ n        |-> report.n + 1,
      aref     |-> aref,
      line     |-> TelemetryLine(aref),
      prevAref |-> report.aref,
      prevLine |-> report.line,
      volts    |-> getAvgVoltage(settings, VFinal, aref, intBits, dblBits),
      amps     |-> getAvgCurrent(settings, IFinal, aref, dblBits),
      verror   |-> getVError(settings, aref, intBits, castMode, dblBits),
      pre      |-> Reported ]

\* dumpToSerial starting the next measurement cycle: lastSamples = 0
dumpToSerialClearing(aref) ==
    /\ status = "running"
    /\ report.n < MaxReports
    /\ report' = Report(aref)
    /\ lastSamples' = 0
    /\ UNCHANGED <<settings, eeprom, serial, relay, status, call, batch, build,
                   arrivals, VFinal, IFinal>>

\* void dumpToSerial(int aref)
dumpToSerial(aref) ==
    /\ status = "running"
    /\ report.n < MaxReports
    /\ report' = Report(aref)
    /\ UNCHANGED <<settings, eeprom, serial, relay, status, call, batch, build,
                   arrivals, VFinal, IFinal, lastSamples>>

\* n * 2^e ADC steps, a value a double of either width holds exactly
Steps(n, e) == Exact(FALSE, NFromInt(n), e)

\* readings the sampling loop leaves: voltage and current in ADC steps, and
\* the number of samples
Readings ==
    { <<Zero, Zero, 0>>,
      <<Steps(512, 0), Steps(512, 0), 250>>,
      <<Steps(1025, -1), Steps(600, 0), 250>> }

\* The sampling loop of the sketch overwrites the latest readings.
Measure(m) ==
    /\ status = "running"
    /\ m # readings
    /\ VFinal' = m[1]
    /\ IFinal' = m[2]
    /\ lastSamples' = m[3]
    /\ report' = NoReport
    /\ UNCHANGED <<settings, eeprom, serial, relay, status, call, batch, build,
                   arrivals>>

\* r1, r2, offset and sensitivity as the commands A, B, C or T, and D can
\* set them: two dividers, a divider without r2, no divider, a sensor
\* without sensitivity, a sensor without offset, a divider whose voltage
\* error is beyond 16 bits, dividers whose r1 + r2 is beyond 16 and beyond
\* 32 bits
Parameters ==
    { <<100, 10, 2500, 185>>, <<47, 10, 2500, 185>>, <<100, 0, 2500, 185>>,
      <<0, 0, 2500, 185>>, <<100, 10, 2500, 0>>, <<100, 10, 0, 185>>,
      <<30000, 1, 2500, 185>>, <<30000, 10000, 2500, 185>>,
      <<LongMax, 1, 2500, 185>> }

\* records the parser can leave
Calibrations ==
    { [ProvisionedSettings EXCEPT
          !.r1 = c[1], !.r2 = c[2], !.offset = c[3], !.sensitivity = c[4]]
      : c \in Parameters }

\* reference voltages passed to dumpToSerial(aref) and the conversions
UnitArefs == {DEFAULT_AREF, 3300, 0, -3300}

\* the sketch in its loop, the settings as an operator left them, each field
\* a value the int of the build holds, and the load switched on
InitReport ==
    /\ settings \in Calibrations
    /\ eeprom = settings
    /\ serial = <<>>
    /\ relay = HIGH
    /\ status = "running"
    /\ call = NoCall(settings)
    /\ batch = <<>>
    /\ \E b \in Builds : intBits = b[1] /\ longBits = b[2] /\ dblBits = b[3]
    /\ arrivals = 0
    /\ VFinal = Zero
    /\ IFinal = Zero
    /\ lastSamples = 0
    /\ castMode \in CastModes
    /\ \A f \in {"r1", "r2", "offset", "sensitivity"} : settings[f] <= MaxOf(intBits)
    /\ report = NoReport

NextReport ==
    \/ \E aref \in UnitArefs : dumpToSerial(aref)
    \/ \E m \in Readings : Measure(m)

SpecReport == InitReport /\ [][NextReport]_vars

---------------------------------------------------------------------------
(* Properties *)

\* the fields of the record other than f are as they were at the call's entry
OthersUnchanged(f) ==
    \A g \in (DOMAIN settings) \ {f} : settings[g] = call.pre[g]

\* the payload of the frame the last call read: its input after '#' and cmd
Payload == SubSeq(call.input, 3, Len(call.input))

\* the commands of the final else branch that name a field or the relay
ElseCommands == {"P", "A", "B", "C", "D", "S"}

\* the number the last call parsed is negative: an int, or the long of F
ValueNegative == IF call.cmd = "F" THEN call.value.neg ELSE call.value < 0

\* C1: after a call that found a first byte other than '#', every byte of
\* the batch is consumed and none is pending; no call made on the bytes of
\* such a batch dispatches a command, changes a setting or echoes.
C1_MalformedBatchDropped ==
    (batch # <<>> /\ batch[1] # "#" /\ call.kind \in {"malformed", "frame"})
        => /\ call.kind = "malformed"
           /\ call.nread = Len(call.input)
           /\ serial = <<>>
           /\ settings = call.pre
           /\ call.echo = <<>>

\* C2: the EEPROM image equals the in-memory record whenever no call is in
\* progress.
C2_Durable == eeprom = settings

C2_Witness ==
    /\ call.kind = "frame"
    /\ call.cmd = "U"
    /\ settings.feedsurl # call.pre.feedsurl
    /\ eeprom = settings

\* C3: a P, A, B, C, D or F command whose payload parses to a negative
\* integer leaves the whole record as it was.
C3_NegativeLeavesRecord ==
    (call.kind = "frame" /\ call.cmd \in SetCommands /\ ValueNegative)
        => settings = call.pre

C3_Witness ==
    /\ call.kind = "frame"
    /\ call.input = <<"#", "P", "-", "5">>
    /\ call.value = -5
    /\ settings.period = call.pre.period

\* C4 as claimed: F, P, A, B, C, D and S with a negative value echo nothing
\* and do not call saveSettings.
C4_NegativeSkipsEchoAndSave ==
    (call.kind = "frame" /\ call.cmd \in SetCommands \cup {"S"} /\ ValueNegative)
        => (call.echo = <<>> /\ call.saves = 0)

\* C4 amended: P, A, B, C, D and S with a negative value echo nothing, drive
\* no pin and do not call saveSettings; F with a negative value echoes
\* nothing and calls saveSettings once, on the unchanged record.
C4_NegativeSkips ==
    (call.kind = "frame" /\ ValueNegative)
        => /\ call.cmd \in ElseCommands
                => (call.echo = <<>> /\ call.pins = <<>> /\ call.saves = 0)
           /\ call.cmd = "F"
                => (call.echo = <<>> /\ call.saves = 1 /\ settings = call.pre)

C4_Witness ==
    /\ call.kind = "frame"
    /\ call.input = <<"#", "F", "-", "5">>
    /\ call.value = Z(TRUE, NFromInt(5))
    /\ call.saves = 1

\* C5 as claimed: every call that read a frame calls saveSettings once.
C5_SaveOnEveryFrame == call.kind = "frame" => call.saves = 1

\* C5 amended: a call that read a frame calls saveSettings once, except that
\* it calls it not at all when the command byte is none of R, Z, T, F, K, U
\* and the payload parses to a negative integer.
C5_SaveUnlessRejected ==
    call.kind = "frame"
        => call.saves = (IF call.cmd \notin OwnBranch /\ ValueNegative THEN 0 ELSE 1)

C5_Witness ==
    /\ call.kind = "frame"
    /\ call.cmd = "Z"
    /\ call.echo # <<>>
    /\ call.saves = 1

\* period, r1, r2, offset and sensitivity of the record s are not negative
NonNegative(s) ==
    \A f \in {"period", "r1", "r2", "offset", "sensitivity"} : s[f] >= 0

\* the last call ran the calibration with a negative reference voltage
CalibratedBelowZero ==
    call.kind = "frame" /\ call.cmd = "T" /\ call.aref < 0

\* bytes are stored, and the payload is terminated right after its last byte.
C7_StoresInsideBuffer ==
    call.kind = "frame"
        => /\ \A k \in 1..Len(call.stores) : call.stores[k] \in 0..(InputLen - 1)
           /\ Len(call.stores) - 1 <= InputLen - 2
           /\ StrLen(call.inputBytes) <= Len(Payload)

\* C8: a K command with a payload longer than 48 characters leaves the first
\* 48 of them and a terminator in apikey, and changes neither another field
\* nor memory outside inputBytes.
C8_KeyTruncated ==
    (call.kind = "frame" /\ call.cmd = "K" /\ Len(Payload) > ApikeyLast)
        => /\ Chars(settings.apikey) = SubSeq(Payload, 1, ApikeyLast)
           /\ settings.apikey[ApikeyLast] = NUL
           /\ OthersUnchanged("apikey")
           /\ Overflow(call.stores) = {}

\* C9: apikey and feedsurl each hold a NUL within their capacity.
C9_Terminated ==
    /\ \E k \in DOMAIN settings.apikey : settings.apikey[k] = NUL
    /\ \E k \in DOMAIN settings.feedsurl : settings.feedsurl[k] = NUL

C9_Witness ==
    /\ call.kind = "frame"
    /\ call.cmd = "K"
    /\ Len(Payload) = ApikeyLen
    /\ StrLen(settings.apikey) = ApikeyLast

\* C10 as claimed: S drives the relay pin high for a value above zero and low
\* for every other value, echoes the state, and changes no setting.
C10_RelayFollowsValue ==
    (call.kind = "frame" /\ call.cmd = "S")
        => /\ call.pins = <<IF call.value > 0 THEN HIGH ELSE LOW>>
           /\ relay = (IF call.value > 0 THEN HIGH ELSE LOW)
           /\ Len(call.echo) = 1
           /\ settings = call.pre

\* C10 amended: S drives the relay pin high for a value above zero and low
\* for the value zero, echoing the state; for a negative value it neither
\* drives the pin nor echoes; it changes no setting.
C10_RelaySwitch ==
    (call.kind = "frame" /\ call.cmd = "S")
        => /\ call.value > 0
                => /\ call.pins = <<HIGH>> /\ relay = HIGH
                   /\ call.echo = <<TextLine("@switch: high", "")>>
           /\ call.value = 0
                => /\ call.pins = <<LOW>> /\ relay = LOW
                   /\ call.echo = <<TextLine("@switch: low", "")>>
           /\ call.value < 0
                => /\ call.pins = <<>> /\ relay = call.preRelay
                   /\ call.echo = <<>>
           /\ settings = call.pre

C10_Witness ==
    /\ call.kind = "frame"
    /\ call.input = <<"#", "S", "x">>
    /\ call.preRelay = HIGH
    /\ relay = LOW

\* the field each storing command names
FieldOf ==
    "P" :> "period" @@ "A" :> "r1" @@ "B" :> "r2" @@ "C" :> "offset" @@
    "D" :> "sensitivity" @@ "F" :> "feedid"

\* the payload is a decimal numeral of a non-negative integer: digits alone
IsNumeral(p) ==
    /\ p # <<>>
    /\ \A k \in 1..Len(p) : p[k] \in Digits

\* the integer the numeral p denotes, a natural of any size
Denoted(p) == ScanDigits(p, 1, <<>>)

\* the value of the field f of the record s, a natural; the int fields are
\* compared as integers
Holds(s, f, n) ==
    IF f = "feedid"
    THEN s[f] = n
    ELSE NBitLen(n) < LongBits /\ s[f] = NToInt(n)

\* the field f holds n in memory and in the EEPROM, and no other field changed
SetExactly(f, n) ==
    /\ Holds(settings, f, n)
    /\ Holds(eeprom, f, n)
    /\ OthersUnchanged(f)
    /\ eeprom = settings

\* C11: P, A, B, C, D and F with a numeral of any non-negative integer n as
\* payload set their field to n, in memory and in the EEPROM, and leave every
\* other field unchanged.
C11_SetsFieldToAnyPayload ==
    (call.kind = "frame" /\ call.cmd \in SetCommands /\ IsNumeral(Payload))
        => SetExactly(FieldOf[call.cmd], Denoted(Payload))

\* the average of `sum` over 1000 reads scaled by aref / 1024 and truncated:
\* trunc(sum * aref / 1024 / 1000), the product formed from the quotient and
\* the remainder of sum by 1000 and from the magnitude of aref, whose sign
\* the result takes
ScaledAverage(sum, aref) ==
    LET mag == IF aref < 0 THEN -aref ELSE aref
        whole == ((sum \div 1000) * mag + ((sum % 1000) * mag) \div 1000) \div 1024
    IN  IF aref < 0 THEN -whole ELSE whole

\* C12 as claimed: a T command makes exactly 1000 analog reads and sets
\* offset to trunc(sum * aref / 1024 / 1000); the offset lies in 0..aref and
\* is stored in the int field unchanged; it is echoed and saved, and no other
\* field changes.
C12_Calibration ==
    (call.kind = "frame" /\ call.cmd = "T")
        => /\ call.nreads = 1000
           /\ call.value \in 0..(1000 * 1023)
           /\ settings.offset = ScaledAverage(call.value, call.aref)
           /\ settings.offset \in 0..call.aref
           /\ settings.offset <= MaxOf(intBits)
           /\ call.echo = <<NumLine("@offset: ", settings.offset, "")>>
           /\ call.saves = 1
           /\ eeprom.offset = settings.offset
           /\ OthersUnchanged("offset")

\* C12 amended: a T command makes exactly 1000 analog reads and sets offset
\* to the whole part of (sum * (aref / 1024.0)) / 1000 as the doubles of the
\* build compute it: trunc(sum * aref / 1024 / 1000) where double has 64
\* bits, that value or one next to it where double has 32 bits; for
\* aref > 0 the offset lies in 0..aref and is stored in the int field
\* unchanged; it is echoed and saved, and no other field changes.
C12_CalibrationRounded ==
    (call.kind = "frame" /\ call.cmd = "T")
        => /\ call.nreads = 1000
           /\ call.value \in 0..(1000 * 1023)
           /\ dblBits = 64 => settings.offset = ScaledAverage(call.value, call.aref)
           /\ settings.offset - ScaledAverage(call.value, call.aref) \in {-1, 0, 1}
           /\ call.aref > 0
                => /\ settings.offset \in 0..call.aref
                   /\ settings.offset <= MaxOf(intBits)
           /\ call.echo = <<NumLine("@offset: ", settings.offset, "")>>
           /\ call.saves = 1
           /\ eeprom.offset = settings.offset
           /\ OthersUnchanged("offset")

C12_Witness ==
    /\ call.kind = "frame"
    /\ call.cmd = "T"
    /\ call.aref = 3300
    /\ call.nreads = 1000
    /\ call.value = 463 * 659 + 537 * 658
    /\ dblBits = 32
    /\ ScaledAverage(call.value, call.aref) = 2121
    /\ settings.offset = 2122
    /\ call.pre.offset = 2490

\* the command bytes the dispatch knows
Commands == OwnBranch \cup ElseCommands

\* C13: a frame whose command byte is none of R, Z, T, F, K, U, P, A, B, C,
\* D, S (the frame '#' alone included) changes no settings field, does not
\* drive the relay pin and prints nothing, whatever its payload.
C13_UnknownIgnored ==
    (call.kind = "frame" /\ call.cmd \notin Commands)
        => /\ settings = call.pre
           /\ call.pins = <<>>
           /\ relay = call.preRelay
           /\ call.echo = <<>>
           /\ call.nreads = 0

C13_Witness ==
    /\ call.kind = "frame"
    /\ call.input = <<"#", "Q", "5", "0">>
    /\ call.value = 50
    /\ call.preRelay = HIGH
    /\ relay = HIGH
    /\ settings = call.pre

\* x >= 0 of a double; false of NaN
DNonNegative(x) == ~IsNaN(x) /\ (IsZero(x) \/ ~x.neg)

\* v * res(aref) <= offset for a finite current reading v = IFinal >= 0 and
\* offset >= 0, in exact arithmetic: v = man * 2^exp and
\* man * 2^exp * aref <= offset * 1024
BelowOffset(aref) ==
    \/ IsZero(IFinal)
    \/ aref <= 0
    \/ LET lhs == NMul(IFinal.man, NFromInt(aref))
           rhs == NShl(NFromInt(settings.offset), 10)
       IN  IF IFinal.exp >= 0
           THEN NCmp(NShl(lhs, IFinal.exp), rhs) <= 0
           ELSE NCmp(lhs, NShl(rhs, -IFinal.exp)) <= 0

\* C14: for readings >= 0, any aref and a record whose r1, r2, offset and
\* sensitivity are not negative, getAvgVoltage and getAvgCurrent return a
\* value >= 0, and getAvgCurrent returns 0 when v * res(aref) <= offset.
C14_Clamped ==
    ( /\ report.n > 0
      /\ DNonNegative(VFinal) /\ DNonNegative(IFinal)
      /\ \A f \in {"r1", "r2", "offset", "sensitivity"} : settings[f] >= 0 )
        => /\ DNonNegative(report.volts)
           /\ DNonNegative(report.amps)
           /\ BelowOffset(report.aref) => report.amps = Zero

C14_Witness ==
    /\ report.n > 0
    /\ report.aref = DEFAULT_AREF
    /\ IFinal = Zero
    /\ settings.offset = 2500
    /\ settings.sensitivity = 185
    /\ getAvgCurrentRaw(settings, IFinal, report.aref, dblBits).neg
    /\ report.amps = Zero
    /\ report.volts = Zero

\* C15: for a record with r2 > 0 the int getVError(aref) returns equals
\* res(aref) * (r1 + r2) / r2 = aref * (r1 + r2) / (1024 * r2); for r1 = 100,
\* r2 = 10 and aref = 5000 that is 53.7, to one decimal.  (Stated for the
\* records whose r1 + r2 is within 32 bits.)
C15_VErrorExact ==
    (report.n > 0 /\ settings.r2 > 0 /\ settings.r1 <= LongMax - settings.r2)
        => /\ report.verror * 1024 * settings.r2
                = report.aref * (settings.r1 + settings.r2)
           /\ (settings.r1 = 100 /\ settings.r2 = 10 /\ report.aref = 5000)
                => report.verror * 10 = 537

\* C16: dumpToSerial changes neither the settings, the EEPROM image, the
\* relay nor the latest readings, and two calls in a row with the same aref
\* and no change of state in between print the same fields.
C16_ReadOnlyRepeatable ==
    /\ report.n > 0 => Reported = report.pre
    /\ (report.n >= 2 /\ report.aref = report.prevAref)
            => report.line = report.prevLine

C16_Witness ==
    /\ report.n = 2
    /\ report.aref = DEFAULT_AREF
    /\ report.prevAref = DEFAULT_AREF
    /\ lastSamples = 250
    /\ DPositive(report.volts)
    /\ DPositive(report.amps)
    /\ relay = HIGH
    /\ report.line = report.prevLine
    /\ report.line[8] = PrintInt(250)

\* the two frames "#P50" and "#A10" in one batch
TwoFrames == <<"#", "P", "5", "0", "#", "A", "1", "0">>

\* C17: a call that reads a frame takes the second byte of the batch as the
\* one command it executes and every later byte as its payload, and reads
\* the whole batch; for "#P50#A10" period becomes 50 and r1 is unchanged.
C17_OneDispatch ==
    call.kind = "frame"
        => /\ call.nread = Len(call.input)
           /\ serial = <<>>
           /\ Len(call.input) >= 2 => call.cmd = call.input[2]
           /\ \A k \in 1..Len(Payload) :
                    k <= InputLen => call.inputBytes[k - 1] = Payload[k]
           /\ call.saves <= 1
           /\ call.cmd \in SetCommands => OthersUnchanged(FieldOf[call.cmd])
           /\ call.input = TwoFrames
                => /\ settings.period = 50
                   /\ settings.r1 = call.pre.r1
                   /\ call.echo = <<NumLine("@period: ", 50, "ms")>>

C17_Witness ==
    /\ call.kind = "frame"
    /\ call.input = TwoFrames
    /\ call.pre.period = 500
    /\ settings.period = 50
    /\ settings.r1 = 47
    /\ serial = <<>>

\* C18: after K with a payload of at most 48 characters apikey holds the
\* payload and NUL in every other byte; after U with a payload of at most
\* 58 characters feedsurl holds the payload and NUL in every other byte;
\* whatever the field held before.
C18_NoResidue ==
    call.kind = "frame"
        => /\ (call.cmd = "K" /\ Len(Payload) <= 48)
                => settings.apikey = CStr(Payload, ApikeyLen)
           /\ (call.cmd = "U" /\ Len(Payload) <= 58)
                => settings.feedsurl = CStr(Payload, FeedsurlLen)

C18_Witness ==
    /\ call.kind = "frame"
    /\ call.cmd = "K"
    /\ Len(Payload) = 2
    /\ StrLen(call.pre.apikey) = 48
    /\ StrLen(settings.apikey) = 2
    /\ \A k \in 2..48 : settings.apikey[k] = NUL

\* C19: every call returns; a call made with input pending reads at least
\* one byte of it, a frame at most 1000 analog values; a call made with no
\* input pending reads nothing, prints nothing, changes no setting and does
\* not save.
C19_TerminatesAndDrains ==
    /\ status = "running"
    /\ call.kind \in {"malformed", "frame"}
            => /\ call.nread >= 1
               /\ Len(serial) < Len(call.input)
               /\ call.nreads \in {0, 1000}
    /\ call.kind = "idle"
            => /\ call.nread = 0
               /\ call.echo = <<>>
               /\ call.saves = 0
               /\ settings = call.pre
               /\ serial = <<>>

====
